---- MODULE Spec2Model ----
(***************************************************************************)
(* pharod (src/main.go): the reconciler that keeps one TCP relay           *)
(* (Listener) per published container port, the loopback source-address    *)
(* allocator behind it, and the goroutines of one Listener.                *)
(*                                                                         *)
(* Strings are sequences of one-character strings, so that formatting and  *)
(* parsing (container keys, dotted IPv4 addresses, DNS names) are computed *)
(* and not assumed.                                                        *)
(***************************************************************************)
EXTENDS Integers, Sequences, FiniteSets, TLC

VARIABLES
  running,             \* runtime: ids of the containers that are running now
  events,              \* runtime: events emitted and not yet consumed (dockerEvents)
  emitted,             \* runtime: number of events emitted so far
  pc,                  \* control loop (main): where it is
  todo,                \* main: containers of the startup listing still to add
  cur,                 \* removeContainer: cid, keys still to visit, Listener in Stop()
  last,                \* main: the handler call that returned last, whether its
                       \* container was running then, and the Listeners it
                       \* started (add) or stopped (remove)
  sourceAddrs,         \* var sourceAddrs: address string -> (port -> dest)
  dnsZone,             \* var dnsZone: DNS name -> IP
  containerListeners,  \* var containerListeners: key -> Listener
  listening,           \* OS: the TCP addresses with an open listening socket
  aliases,             \* OS: loopback aliases added by ifconfig, in order
  rl,                  \* one Listener's goroutines, sockets and channels
  call                 \* one function of the program applied to given arguments

vars == <<running, events, emitted, pc, todo, cur, last, sourceAddrs, dnsZone,
          containerListeners, listening, aliases, rl, call>>

ctlVars == <<running, events, emitted, pc, todo, cur, last, sourceAddrs, dnsZone,
             containerListeners, listening, aliases, call>>

----------------------------------------------------------------------------
(* Maps *)

EmptyMap == [x \in {} |-> 0]

MapPut(m, k, v) == [x \in (DOMAIN m) \cup {k} |-> IF x = k THEN v ELSE m[x]]

\* a delete that leaves the map as it is
MapKeep(m, k) == m

MapDel(m, k) == [x \in (DOMAIN m) \ {k} |-> m[x]]

Perms(S) == {f \in [1..Cardinality(S) -> S] : \A a \in S : \E i \in DOMAIN f : f[i] = a}

----------------------------------------------------------------------------
(* Strings *)

Digits == <<"0", "1", "2", "3", "4", "5", "6", "7", "8", "9">>

RECURSIVE Itoa(_)
\* fmt's %d of a non-negative integer
Itoa(n) == IF n < 10 THEN <<Digits[n + 1]>> ELSE Itoa(n \div 10) \o <<Digits[(n % 10) + 1]>>

DigitVal(ch) == CHOOSE d \in 0..9 : Digits[d + 1] = ch

IsDigit(ch) == \E d \in 0..9 : Digits[d + 1] = ch

RECURSIVE Atoi(_)
\* the number written by the decimal digits s
Atoi(s) == IF Len(s) = 1 THEN DigitVal(s[1])
           ELSE 10 * Atoi(SubSeq(s, 1, Len(s) - 1)) + DigitVal(s[Len(s)])

\* a prefix test that takes the empty prefix's place for any prefix of the
\* first character
HasFirstChar(s, prefix) ==
  /\ Len(prefix) <= Len(s)
  /\ s[1] = prefix[1]

\* strings.HasPrefix
HasPrefix(s, prefix) ==
  /\ Len(prefix) <= Len(s)
  /\ SubSeq(s, 1, Len(prefix)) = prefix

RECURSIVE SplitDots(_)
\* the dot-separated fields of s
SplitDots(s) ==
  IF \A i \in 1..Len(s) : s[i] # "."
  THEN <<s>>
  ELSE LET i == CHOOSE j \in 1..Len(s) : s[j] = "." /\ \A k \in 1..(j - 1) : s[k] # "."
       IN <<SubSeq(s, 1, i - 1)>> \o SplitDots(SubSeq(s, i + 1, Len(s)))

----------------------------------------------------------------------------
(* IPv4 addresses: the four bytes of To4() *)

NilIP == <<>>

\* net.ParseIP of a dotted quad; nil when it is not one
ParseIP(s) ==
  LET f == SplitDots(s) IN
  IF /\ Len(f) = 4
     /\ \A i \in 1..4 : /\ Len(f[i]) \in 1..3
                        /\ \A j \in 1..Len(f[i]) : IsDigit(f[i][j])
                        /\ Atoi(f[i]) <= 255
  THEN <<Atoi(f[1]), Atoi(f[2]), Atoi(f[3]), Atoi(f[4])>>
  ELSE NilIP

\* net.IP.String
IPString(ip) ==
  Itoa(ip[1]) \o <<".">> \o Itoa(ip[2]) \o <<".">> \o Itoa(ip[3]) \o <<".">> \o Itoa(ip[4])

IsLoopback(ip) == ip[1] = 127

IsUnspecified(ip) == ip = <<0, 0, 0, 0>>

SourceStartIP == ParseIP(<<"1", "2", "7", ".", "2", ".", "2", ".", "1">>)

ipToInt(ip) == ip[1] * 16777216 + ip[2] * 65536 + ip[3] * 256 + ip[4]

\* an increment that loses the carry out of the lowest byte
succLowByte(ip) == <<ip[1], ip[2], ip[3], (ip[4] + 2) % 256>>

\* ipInt += 1 on a uint32 and its four bytes again: the increment carried
\* through the bytes, 255.255.255.255 wrapping to 0.0.0.0
succIP(ip) ==
  LET c4 == ip[4] + 1
      c3 == ip[3] + (c4 \div 256)
      c2 == ip[2] + (c3 \div 256)
      c1 == ip[1] + (c2 \div 256)
  IN <<c1 % 256, c2 % 256, c3 % 256, c4 % 256>>

----------------------------------------------------------------------------
(* DNS names *)

Lower == {"a", "b", "c", "d", "e", "f", "g", "h", "i", "j", "k", "l", "m",
          "n", "o", "p", "q", "r", "s", "t", "u", "v", "w", "x", "y", "z"}

\* the characters the class [^-a-z0-9.] does not match
AllowedChar(ch) == ch \in Lower \/ IsDigit(ch) \/ ch = "-" \/ ch = "."

RECURSIVE ReplaceDisallowed(_)
\* dnsNameAllowedChars.ReplaceAllLiteralString(s, "-"): every maximal run of
\* characters outside [-a-z0-9.] becomes one hyphen
ReplaceDisallowed(s) ==
  IF s = <<>> THEN <<>>
  ELSE IF AllowedChar(Head(s)) THEN <<Head(s)>> \o ReplaceDisallowed(Tail(s))
  ELSE LET n == CHOOSE k \in 1..Len(s) :
                  /\ \A i \in 1..k : ~AllowedChar(s[i])
                  /\ (k = Len(s) \/ AllowedChar(s[k + 1]))
       IN <<"-">> \o ReplaceDisallowed(SubSeq(s, n + 1, Len(s)))

RECURSIVE TrimHyphens(_)
\* strings.Trim(s, "-")
TrimHyphens(s) ==
  IF s = <<>> THEN <<>>
  ELSE IF Head(s) = "-" THEN TrimHyphens(Tail(s))
  ELSE IF s[Len(s)] = "-" THEN TrimHyphens(SubSeq(s, 1, Len(s) - 1))
  ELSE s

\* hyphens left as they are
KeepHyphens(s) == s

RECURSIVE CollapseHyphens(_)
\* dnsNameHyphenStrings.ReplaceAllLiteralString(s, "-"): every run of two or
\* more hyphens becomes one hyphen
CollapseHyphens(s) ==
  IF Len(s) < 2 THEN s
  ELSE IF s[1] = "-" /\ s[2] = "-" THEN CollapseHyphens(Tail(s))
  ELSE <<Head(s)>> \o CollapseHyphens(Tail(s))

dnsNameFromContainerName(containerName) ==
  CollapseHyphens(TrimHyphens(ReplaceDisallowed(containerName)))

----------------------------------------------------------------------------
(* The container runtime: what InspectContainer reports *)

CidA == <<"a">>
CidAB == <<"a", "b">>
CidB == <<"b">>

ContainerIDs == {CidA, CidAB, CidB}

Unspecified == <<"0", ".", "0", ".", "0", ".", "0">>

HostIP == <<"1", "0", ".", "0", ".", "0", ".", "7">>

APIPort(private, public, ip) == [PrivatePort |-> private, PublicPort |-> public, IP |-> ip]

\* docker.Container.Name
ContainerName(cid) ==
  CASE cid = CidA -> <<"/", "w", "e", "b">>
    [] cid = CidAB -> <<"/", "w", "e", "b", "_">>
    [] cid = CidB -> <<"/", "_", "D", "B">>

\* the port mappings of the container while it runs
PublishedPorts(cid) ==
  CASE cid = CidA -> {APIPort(80, 50000, Unspecified), APIPort(8080, 80, HostIP)}
    [] cid = CidAB -> {APIPort(80, 50001, Unspecified), APIPort(443, 0, Unspecified),
                       APIPort(0, 8080, Unspecified)}
    [] cid = CidB -> {APIPort(80, 50002, Unspecified)}

\* the event statuses with which the runtime reports that the container runs,
\* and that it runs no more
UpStatus(cid) ==
  CASE cid = CidA -> {"start"}
    [] cid = CidAB -> {"unpause"}
    [] cid = CidB -> {"start"}

DownStatus(cid) ==
  CASE cid = CidA -> {"die"}
    [] cid = CidAB -> {"pause"}
    [] cid = CidB -> {"stop"}

\* dockerClient.InspectContainer(cid): a container that is not running has no
\* port mappings
InspectContainer(cid, up) ==
  [ID |-> cid, Name |-> ContainerName(cid),
   Ports |-> IF cid \in up THEN PublishedPorts(cid) ELSE {}]

dockerIP == <<192, 168, 99, 100>>

firstEphemeralPort == 49152

----------------------------------------------------------------------------
(* Address allocation *)

TCPAddr(ip, port) == [IP |-> ip, Port |-> port]

\* a scan that takes the first address whether or not `port` is claimed on it
ScanFirstAddr(order, lastAddr, lastAddrIP, port, addrs) ==
  IF order = <<>> THEN [found |-> FALSE, addr |-> lastAddr]
  ELSE [found |-> TRUE, addr |-> Head(order)]

RECURSIVE ScanSourceAddrs(_, _, _, _, _)
\* the loop of sourceAddrForPort over the map in the iteration order `order`:
\* the first address without `port`, or else the highest address seen
ScanSourceAddrs(order, lastAddr, lastAddrIP, port, addrs) ==
  IF order = <<>> THEN [found |-> FALSE, addr |-> lastAddr]
  ELSE LET addr == Head(order)
           addrIP == ParseIP(addr)
           higher == lastAddrIP = NilIP \/ ipToInt(addrIP) > ipToInt(lastAddrIP)
       IN IF port \notin DOMAIN addrs[addr]
          THEN [found |-> TRUE, addr |-> addr]
          ELSE ScanSourceAddrs(Tail(order),
                               IF higher THEN addr ELSE lastAddr,
                               IF higher THEN addrIP ELSE lastAddrIP,
                               port, addrs)

\* ls[port] = dest; return getSourceAddr(addr)
claimPort(addr, port, dest, addrs, al) ==
  [panic |-> FALSE,
   src |-> TCPAddr(ParseIP(addr), port),
   addrs |-> [addrs EXCEPT ![addr] = MapPut(@, port, dest)],
   al |-> al]

\* ifconfig lo0 alias addr up; sourceAddrs[addr] = {port: dest}
addAlias(addr, port, dest, addrs, al) ==
  [panic |-> FALSE,
   src |-> TCPAddr(ParseIP(addr), port),
   addrs |-> MapPut(addrs, addr, MapPut(EmptyMap, port, dest)),
   al |-> Append(al, addr)]

\* the new address nextIP, which must be a loopback address
provision(nextIP, port, dest, addrs, al) ==
  IF ~IsLoopback(nextIP)
  THEN [panic |-> TRUE, src |-> TCPAddr(NilIP, port), addrs |-> addrs, al |-> al]
  ELSE addAlias(IPString(nextIP), port, dest, addrs, al)

\* after the loop, a new address whatever the scan found
alwaysProvision(scan, port, dest, addrs, al) ==
  provision(IF DOMAIN addrs = {} THEN SourceStartIP
            ELSE succIP(ParseIP(CHOOSE a \in DOMAIN addrs :
                   \A b \in DOMAIN addrs : ipToInt(ParseIP(b)) <= ipToInt(ParseIP(a)))),
            port, dest, addrs, al)

\* sourceAddrForPort after its loop ended with `scan`
afterScan(scan, port, dest, addrs, al) ==
  IF scan.found
  THEN claimPort(scan.addr, port, dest, addrs, al)
  ELSE provision(IF scan.addr = <<>> THEN SourceStartIP ELSE succIP(ParseIP(scan.addr)),
                 port, dest, addrs, al)

\* sourceAddrForPort(port, dest) on the map `addrs`: for every iteration order
\* of the map, the address returned, the map and the aliases afterwards
sourceAddrForPort(port, dest, addrs, al) ==
  {afterScan(ScanSourceAddrs(order, <<>>, NilIP, port, addrs), port, dest, addrs, al)
   : order \in Perms(DOMAIN addrs)}

----------------------------------------------------------------------------
(* Listener construction *)

NoListener == [DNSName |-> <<>>, Src |-> TCPAddr(NilIP, 0), Dest |-> TCPAddr(NilIP, 0)]

\* a choice that takes ports equal to the threshold for operator-chosen ones
srcPortAbove(destPort, privatePort, first) ==
  IF destPort > first THEN privatePort ELSE destPort

\* srcPort, for the destination port, the private port and the value of
\* firstEphemeralPort
srcPort(destPort, privatePort, first) ==
  IF destPort >= first THEN privatePort ELSE destPort

\* the source port of a Listener that forwards to dest
chooseSourcePort(dest, port) == srcPort(dest.Port, port.PrivatePort, firstEphemeralPort)

\* out.Src = sourceAddrForPort(srcPort, out.Dest)
withSource(name, dest, a) ==
  [err |-> FALSE, panic |-> a.panic,
   l |-> [DNSName |-> name, Src |-> a.src, Dest |-> dest],
   addrs |-> a.addrs, al |-> a.al]

\* out.Dest of the resolved port.IP, and the source address for it
withDest(name, dest, port, addrs, al) ==
  {withSource(name, dest, a)
   : a \in sourceAddrForPort(chooseSourcePort(dest, port), dest, addrs, al)}

\* the Listener named `name`
buildListener(name, destIP, port, addrs, al) ==
  IF name = <<>>
  THEN {[err |-> TRUE, panic |-> FALSE, l |-> NoListener, addrs |-> addrs, al |-> al]}
  ELSE withDest(name, TCPAddr(IF IsUnspecified(destIP) THEN dockerIP ELSE destIP, port.PublicPort),
                port, addrs, al)

\* ListenerFromContainerAndPort(container, port): every outcome, err or the
\* Listener with the source address allocated for it
ListenerFromContainerAndPort(container, port, addrs, al) ==
  IF container.Name = <<>> \/ port.PublicPort = 0 \/ port.PrivatePort = 0
  THEN {[err |-> TRUE, panic |-> FALSE, l |-> NoListener, addrs |-> addrs, al |-> al]}
  ELSE buildListener(dnsNameFromContainerName(container.Name), ParseIP(port.IP),
                     port, addrs, al)

----------------------------------------------------------------------------
(* The reconciler *)

MaxEvents == 3

\* containerPortKey: "%s:%d" of the container id and the private port
containerPortKey(c, p) == c.ID \o <<":">> \o Itoa(p.PrivatePort)

\* the program's maps and the OS state they drive, as one value
Maps(cl, dz, sa, ls, al) ==
  [cl |-> cl, dz |-> dz, sa |-> sa, ls |-> ls, al |-> al, out |-> <<>>, panic |-> FALSE]

NowMaps == Maps(containerListeners, dnsZone, sourceAddrs, listening, aliases)

\* l.Start(): net.ListenTCP on l.Src panics when the address is already bound
StartPanics(l, st) == l.Src \in st.ls

\* a loop body that records the Listener whatever was returned with it
registerFailed(key, r, st) ==
  [st EXCEPT !.cl = MapPut(st.cl, key, r.l), !.out = Append(st.out, r.l)]

\* addContainer's loop body after ListenerFromContainerAndPort returned r
register(key, r, st) ==
  IF r.err THEN st
  ELSE IF r.panic THEN [st EXCEPT !.panic = TRUE]
  ELSE IF StartPanics(r.l, st) THEN [st EXCEPT !.sa = r.addrs, !.al = r.al, !.panic = TRUE]
  ELSE [st EXCEPT !.cl = MapPut(st.cl, key, r.l),
                  !.dz = MapPut(st.dz, r.l.DNSName, r.l.Src.IP),
                  !.sa = r.addrs,
                  !.ls = st.ls \cup {r.l.Src},
                  !.al = r.al,
                  !.out = Append(st.out, r.l)]

\* the loop body without the "already started" test
addKeyAgain(key, c, port, st) ==
  IF st.panic
  THEN {st}
  ELSE {register(key, r, st) : r \in ListenerFromContainerAndPort(c, port, st.sa, st.al)}

\* one iteration of addContainer's loop for the key `key`: every outcome
addKey(key, c, port, st) ==
  IF st.panic \/ key \in DOMAIN st.cl
  THEN {st}
  ELSE {register(key, r, st) : r \in ListenerFromContainerAndPort(c, port, st.sa, st.al)}

addPort(c, port, st) == addKey(containerPortKey(c, port), c, port, st)

RECURSIVE addPorts(_, _, _)
\* addContainer's loop over the port mappings in the order `ports`
addPorts(c, ports, st) ==
  IF ports = <<>> THEN {st}
  ELSE UNION {addPorts(c, Tail(ports), st2) : st2 \in addPort(c, Head(ports), st)}

\* addContainer(dockerClient, cid) from the maps `st`, the containers `up`
\* running: every outcome, over the order of PortMappingAPI() and of the
\* sourceAddrs map
addContainer(cid, up, st) ==
  UNION {addPorts(InspectContainer(cid, up), ports, st)
         : ports \in Perms(InspectContainer(cid, up).Ports)}

\* the keys removeContainer(cid) acts on
KeysOf(cid, cl) == {cp \in DOMAIN cl : HasPrefix(cp, cid \o <<":">>)}

\* a release under a key that is never in the map
ReleaseNothing(sa, src) == sa

\* delete(sourceAddrs[ip], port)
Release(sa, src) ==
  IF IPString(src.IP) \in DOMAIN sa
  THEN [sa EXCEPT ![IPString(src.IP)] = MapDel(@, src.Port)]
  ELSE sa

----------------------------------------------------------------------------
(* One Listener: its sockets, channels and goroutines *)

MaxConns == 2

Conns == 1..MaxConns

\* the Listener after Start(): the socket listens, finished.Add(1), the
\* tracker waits in its select, the accept loop in Accept()
Started ==
  [lsock |-> "open",                        \* tcpListener
   acc |-> "accept",                        \* the accept loop
   accConn |-> 0,                           \* the connection Accept() returned
   accepted |-> 0,                          \* connections accepted so far
   trk |-> "select",                        \* the tracker
   openConnections |-> {},
   local |-> [c \in Conns |-> "none"],      \* the accepted connections
   remote |-> [c \in Conns |-> "none"],     \* the connections dialled for them
   fwd |-> [c \in Conns |-> "none"],        \* forward(local)
   up |-> [c \in Conns |-> "none"],         \* the goroutine of io.Copy(remote, local)
   down |-> [c \in Conns |-> "none"],       \* the goroutine of io.Copy(local, remote)
   wg |-> [c \in Conns |-> 0],              \* forward's wg
   finished |-> 1,                          \* self.finished
   stop |-> "idle",                         \* the caller of Stop()
   wait |-> "idle"]                         \* the caller of Wait()

NoCur == [cid |-> <<>>, keys |-> {}, l |-> NoListener, tracker |-> "none", stopped |-> <<>>]

NoCall == [op |-> "none", id |-> <<>>, up |-> FALSE, out |-> <<>>]

NoArgs == [op |-> "none"]

Init ==
  /\ running \in SUBSET ContainerIDs
  /\ events = <<>>
  /\ emitted = 0
  /\ pc = "list"
  /\ todo = {}
  /\ cur = NoCur
  /\ last = NoCall
  /\ sourceAddrs = EmptyMap
  /\ dnsZone = EmptyMap
  /\ containerListeners = EmptyMap
  /\ listening = {}
  /\ aliases = <<>>
  /\ rl = Started
  /\ call = NoArgs

\* the runtime starts or unpauses a container
ContainerUp(cid, status) ==
  /\ emitted < MaxEvents
  /\ cid \notin running
  /\ running' = running \cup {cid}
  /\ events' = Append(events, [Status |-> status, ID |-> cid])
  /\ emitted' = emitted + 1
  /\ UNCHANGED <<pc, todo, cur, last, sourceAddrs, dnsZone, containerListeners,
                 listening, aliases, rl, call>>

\* the runtime stops or pauses a container, or it dies
ContainerDown(cid, status) ==
  /\ emitted < MaxEvents
  /\ cid \in running
  /\ running' = running \ {cid}
  /\ events' = Append(events, [Status |-> status, ID |-> cid])
  /\ emitted' = emitted + 1
  /\ UNCHANGED <<pc, todo, cur, last, sourceAddrs, dnsZone, containerListeners,
                 listening, aliases, rl, call>>

SetMaps(st) ==
  /\ containerListeners' = st.cl
  /\ dnsZone' = st.dz
  /\ sourceAddrs' = st.sa
  /\ listening' = st.ls
  /\ aliases' = st.al

\* main: dockerClient.ListContainers, after the event listener was added
ListContainers ==
  /\ pc = "list"
  /\ todo' = running
  /\ pc' = IF running = {} THEN "loop" ELSE "enum"
  /\ UNCHANGED <<running, events, emitted, cur, last, sourceAddrs, dnsZone,
                 containerListeners, listening, aliases, rl, call>>

\* main: one addContainer of the loop over the listed containers
EnumAdd ==
  /\ pc = "enum"
  /\ \E cid \in todo : \E st \in addContainer(cid, running, NowMaps) :
       /\ SetMaps(st)
       /\ todo' = todo \ {cid}
       /\ last' = [op |-> "add", id |-> cid, up |-> cid \in running, out |-> st.out]
       /\ pc' = IF st.panic THEN "panic" ELSE IF todo' = {} THEN "loop" ELSE "enum"
  /\ UNCHANGED <<running, events, emitted, cur, rl, call>>

\* main: case "start", "unpause"
EventAdd ==
  /\ pc = "loop"
  /\ events # <<>>
  /\ Head(events).Status \in {"start", "unpause"}
  /\ \E st \in addContainer(Head(events).ID, running, NowMaps) :
       /\ SetMaps(st)
       /\ last' = [op |-> "add", id |-> Head(events).ID, up |-> Head(events).ID \in running,
                    out |-> st.out]
       /\ pc' = IF st.panic THEN "panic" ELSE "loop"
  /\ events' = Tail(events)
  /\ UNCHANGED <<running, emitted, todo, cur, rl, call>>

\* removeContainer's loop from its next entry on: the three deletes and
\* Stop() up to its send on closeAllConns, or the return when no entry is left
\* (`stopped`: the Listeners whose Stop() returned in this call)
removeNext(cid, keys, stopped) ==
  IF keys = {}
  THEN /\ pc' = "loop"
       /\ cur' = NoCur
       /\ last' = [op |-> "remove", id |-> cid, up |-> cid \in running, out |-> stopped]
       /\ UNCHANGED <<sourceAddrs, dnsZone, containerListeners, listening>>
  ELSE \E cp \in keys :
         LET l == containerListeners[cp] IN
         /\ containerListeners' = MapDel(containerListeners, cp)
         /\ dnsZone' = MapDel(dnsZone, l.DNSName)
         /\ sourceAddrs' = Release(sourceAddrs, l.Src)
         /\ listening' = listening \ {l.Src}
         /\ pc' = "stop"
         /\ cur' = [cid |-> cid, keys |-> keys \ {cp}, l |-> l, tracker |-> "run",
                     stopped |-> stopped]
         /\ UNCHANGED last

\* main: case "stop", "pause", "die"
EventRemove ==
  /\ pc = "loop"
  /\ events # <<>>
  /\ Head(events).Status \in {"stop", "pause", "die"}
  /\ removeNext(Head(events).ID, KeysOf(Head(events).ID, containerListeners), <<>>)
  /\ events' = Tail(events)
  /\ UNCHANGED <<running, emitted, todo, aliases, rl, call>>

\* Stop(): the tracker receives Stop's close-all, Stop returns and
\* removeContainer goes on
StopReturns ==
  /\ pc = "stop"
  /\ cur.tracker = "run"
  /\ removeNext(cur.cid, cur.keys, Append(cur.stopped, cur.l))
  /\ UNCHANGED <<running, events, emitted, todo, aliases, rl, call>>

\* the accept loop, woken by the closed socket, sends its close-all first: the
\* tracker takes it and exits, and Stop's send has no receiver
AcceptLoopCloseAll ==
  /\ pc = "stop"
  /\ cur.tracker = "run"
  /\ cur' = [cur EXCEPT !.tracker = "done"]
  /\ UNCHANGED <<running, events, emitted, pc, todo, last, sourceAddrs, dnsZone,
                 containerListeners, listening, aliases, rl, call>>

Next ==
  \/ \E cid \in ContainerIDs : \E status \in UpStatus(cid) : ContainerUp(cid, status)
  \/ \E cid \in ContainerIDs : \E status \in DownStatus(cid) : ContainerDown(cid, status)
  \/ ListContainers
  \/ EnumAdd
  \/ EventAdd
  \/ EventRemove
  \/ StopReturns
  \/ AcceptLoopCloseAll

Spec == Init /\ [][Next]_vars

----------------------------------------------------------------------------
(* The goroutines of one Listener *)

\* self.finished.Done() in the Listener r: the counter goes down by one, and
\* at zero a goroutine blocked in Wait() is released
Done(r) ==
  [r EXCEPT !.finished = @ - 1,
            !.wait = IF @ = "waiting" /\ r.finished = 1 THEN "woken" ELSE @]

\* the process after a panic: every goroutine is gone and the OS has closed
\* its sockets
Panicked(r) ==
  [r EXCEPT !.lsock = "closed", !.acc = "dead", !.accConn = 0, !.trk = "dead",
            !.local = [c \in Conns |-> IF r.local[c] = "none" THEN "none" ELSE "closed"],
            !.remote = [c \in Conns |-> IF r.remote[c] = "none" THEN "none" ELSE "closed"],
            !.fwd = [c \in Conns |-> "dead"],
            !.up = [c \in Conns |-> "dead"],
            !.down = [c \in Conns |-> "dead"],
            !.stop = "dead", !.wait = "panic"]

\* tcpListener.Accept() returns a connection
Accept ==
  /\ rl.acc = "accept"
  /\ rl.lsock = "open"
  /\ rl.accepted < MaxConns
  /\ rl' = [rl EXCEPT !.acc = "register", !.accepted = @ + 1, !.accConn = rl.accepted + 1,
                      !.local[rl.accepted + 1] = "open"]
  /\ UNCHANGED ctlVars

\* tcpListener.Accept() fails: the socket was closed
AcceptError ==
  /\ rl.acc = "accept"
  /\ rl.lsock = "closed"
  /\ rl' = [rl EXCEPT !.acc = "closeAll"]
  /\ UNCHANGED ctlVars

\* self.newConn <- conn, received by the tracker: openConnections[conn] = true
Register ==
  /\ rl.acc = "register"
  /\ rl.trk = "select"
  /\ rl' = [rl EXCEPT !.acc = "spawn", !.openConnections = @ \cup {rl.accConn}]
  /\ UNCHANGED ctlVars

\* go self.forward(conn)
Spawn ==
  /\ rl.acc = "spawn"
  /\ rl' = [rl EXCEPT !.acc = "accept", !.fwd[rl.accConn] = "dial", !.accConn = 0]
  /\ UNCHANGED ctlVars

\* the accept loop's self.closeAllConns <- struct{}{}, received by the tracker
AcceptCloseAll ==
  /\ rl.acc = "closeAll"
  /\ rl.trk = "select"
  /\ rl' = [rl EXCEPT !.acc = "done", !.trk = "closing"]
  /\ UNCHANGED ctlVars

\* the tracker after close-all: conn.Close() for every tracked connection,
\* self.finished.Done(), return
TrackerCloseAll ==
  /\ rl.trk = "closing"
  /\ rl' = Done([rl EXCEPT !.trk = "done",
                           !.local = [c \in Conns |-> IF c \in rl.openConnections
                                                      THEN "closed" ELSE rl.local[c]]])
  /\ UNCHANGED ctlVars

\* forward: net.DialTCP succeeds; wg.Add(2), finished.Add(2), both copies start
DialOK(c) ==
  /\ rl.fwd[c] = "dial"
  /\ rl' = [rl EXCEPT !.fwd[c] = "wait", !.remote[c] = "open", !.wg[c] = 2,
                      !.finished = @ + 2, !.up[c] = "copy", !.down[c] = "copy"]
  /\ UNCHANGED ctlVars

\* forward: net.DialTCP fails; forward returns
DialFail(c) ==
  /\ rl.fwd[c] = "dial"
  /\ rl' = [rl EXCEPT !.fwd[c] = "failed"]
  /\ UNCHANGED ctlVars

\* one end of the pair is closed on this side
PairClosed(c) == rl.local[c] = "closed" \/ rl.remote[c] = "closed"

\* io.Copy(remote, local) returns; self.finished.Done(); wg.Done().  It returns
\* on the peer's EOF or error (any time), and on a closed end of the pair
UpEnds(c, byPeer) ==
  /\ rl.up[c] = "copy"
  /\ byPeer \/ PairClosed(c)
  /\ rl' = Done([rl EXCEPT !.up[c] = "ended", !.wg[c] = @ - 1])
  /\ UNCHANGED ctlVars

\* io.Copy(local, remote) returns; self.finished.Done(); wg.Done()
DownEnds(c, byPeer) ==
  /\ rl.down[c] = "copy"
  /\ byPeer \/ PairClosed(c)
  /\ rl' = Done([rl EXCEPT !.down[c] = "ended", !.wg[c] = @ - 1])
  /\ UNCHANGED ctlVars

\* a copy goroutine that returns without closing either connection
UpExitsOpen(c) ==
  /\ rl.up[c] = "ended"
  /\ rl' = [rl EXCEPT !.up[c] = "exited"]
  /\ UNCHANGED ctlVars

\* the deferred remote.Close() and local.Close() of the first copy goroutine
UpExits(c) ==
  /\ rl.up[c] = "ended"
  /\ rl' = [rl EXCEPT !.up[c] = "exited", !.local[c] = "closed", !.remote[c] = "closed"]
  /\ UNCHANGED ctlVars

\* the deferred remote.Close() and local.Close() of the second copy goroutine
DownExits(c) ==
  /\ rl.down[c] = "ended"
  /\ rl' = [rl EXCEPT !.down[c] = "exited", !.local[c] = "closed", !.remote[c] = "closed"]
  /\ UNCHANGED ctlVars

\* forward: wg.Wait() returns
ForwardWaited(c) ==
  /\ rl.fwd[c] = "wait"
  /\ rl.wg[c] = 0
  /\ rl' = [rl EXCEPT !.fwd[c] = "report"]
  /\ UNCHANGED ctlVars

\* forward: self.closedConn <- local, received by the tracker:
\* delete(openConnections, conn)
Report(c) ==
  /\ rl.fwd[c] = "report"
  /\ rl.trk = "select"
  /\ rl' = [rl EXCEPT !.fwd[c] = "done", !.openConnections = @ \ {c}]
  /\ UNCHANGED ctlVars

\* Stop(): self.tcpListener.Close()
StopClose ==
  /\ rl.stop = "idle"
  /\ rl' = [rl EXCEPT !.stop = "send", !.lsock = "closed"]
  /\ UNCHANGED ctlVars

\* Stop(): self.closeAllConns <- struct{}{}, received by the tracker; Stop returns
StopSend ==
  /\ rl.stop = "send"
  /\ rl.trk = "select"
  /\ rl' = [rl EXCEPT !.stop = "returned", !.trk = "closing"]
  /\ UNCHANGED ctlVars

\* Wait() is called after Stop() returned: self.finished.Wait() returns at
\* once when the counter is zero, and blocks otherwise
WaitCall ==
  /\ rl.stop = "returned"
  /\ rl.wait = "idle"
  /\ rl' = [rl EXCEPT !.wait = IF rl.finished = 0 THEN "returned" ELSE "waiting"]
  /\ UNCHANGED ctlVars

\* Wait(): the goroutine released by the Done() that brought the counter to
\* zero returns
WaitReturn ==
  /\ rl.wait = "woken"
  /\ rl' = [rl EXCEPT !.wait = "returned"]
  /\ UNCHANGED ctlVars

\* forward's finished.Add(2) ran between the Done() that brought the counter
\* to zero and the return of Wait(): sync.WaitGroup panics ("WaitGroup is
\* reused before previous Wait has returned" in Wait, or "Add called
\* concurrently with Wait" in Add or Done)
WaitPanics ==
  /\ rl.wait = "woken"
  /\ rl.finished # 0
  /\ rl' = Panicked(rl)
  /\ UNCHANGED ctlVars

\* forward's finished.Add(2) ran before Done() looked at the counter again:
\* a WaitGroup that releases its waiters only at zero leaves Wait() blocked
WaitStaysBlocked ==
  /\ rl.wait = "woken"
  /\ rl.finished # 0
  /\ rl' = [rl EXCEPT !.wait = "waiting"]
  /\ UNCHANGED ctlVars

RelayInit ==
  /\ running = {}
  /\ events = <<>>
  /\ emitted = 0
  /\ pc = "list"
  /\ todo = {}
  /\ cur = NoCur
  /\ last = NoCall
  /\ sourceAddrs = EmptyMap
  /\ dnsZone = EmptyMap
  /\ containerListeners = EmptyMap
  /\ listening = {}
  /\ aliases = <<>>
  /\ rl = Started
  /\ call = NoArgs

GoNext ==
  \/ AcceptError
  \/ Register
  \/ Spawn
  \/ AcceptCloseAll
  \/ TrackerCloseAll
  \/ \E c \in Conns : DialOK(c)
  \/ \E c \in Conns : DialFail(c)
  \/ \E c \in Conns : UpEnds(c, FALSE)
  \/ \E c \in Conns : DownEnds(c, FALSE)
  \/ \E c \in Conns : UpExits(c)
  \/ \E c \in Conns : DownExits(c)
  \/ \E c \in Conns : ForwardWaited(c)
  \/ \E c \in Conns : Report(c)
  \/ StopSend
  \/ WaitReturn
  \/ WaitPanics
  \/ WaitStaysBlocked

RelayNext ==
  \/ Accept
  \/ \E c \in Conns : UpEnds(c, TRUE)
  \/ \E c \in Conns : DownEnds(c, TRUE)
  \/ StopClose
  \/ WaitCall
  \/ GoNext

RelaySpec == RelayInit /\ [][RelayNext]_vars

\* every goroutine that can take a step takes one; connections arriving,
\* peers hanging up and the calls of Stop() and Wait() are not owed
RelayFairness ==
  /\ WF_vars(AcceptError)
  /\ WF_vars(Register)
  /\ WF_vars(Spawn)
  /\ WF_vars(AcceptCloseAll)
  /\ WF_vars(TrackerCloseAll)
  /\ WF_vars(StopSend)
  /\ WF_vars(WaitReturn)
  /\ \A c \in Conns :
       /\ WF_vars(DialOK(c) \/ DialFail(c))
       /\ WF_vars(UpEnds(c, FALSE))
       /\ WF_vars(DownEnds(c, FALSE))
       /\ WF_vars(UpExits(c))
       /\ WF_vars(DownExits(c))
       /\ WF_vars(ForwardWaited(c))
       /\ WF_vars(Report(c))

FairRelaySpec == RelaySpec /\ RelayFairness

----------------------------------------------------------------------------
(* The functions of the program, each applied once to given arguments *)

MaxNameLen == 4

\* one character of each kind the name patterns tell apart
Alphabet == {"a", "B", "0", ".", "-", "/"}

Names == UNION {[1..n -> Alphabet] : n \in 0..MaxNameLen}

\* a mapping that gets a Listener when the container's name allows one
GoodPort == APIPort(80, 50000, Unspecified)

PortArgs ==
  {APIPort(private, public, ip) : private \in {0, 8080},
                                  public \in {0, 80, 1024, 49151, 49152},
                                  ip \in {Unspecified, HostIP}}

\* values of DOCKER_FIRST_EPHEMERAL_PORT
FirstArgs == {1024, firstEphemeralPort}

\* no name, a name without a DNS name, names with one
NameArgs == {<<>>, <<"/", "B">>, <<"/", "a">>, <<"/", "w", "e", "b", "/", "1">>}

\* sourceAddrs and the aliases before the call: nothing yet, or one address
\* with port 8080 claimed
AllocArgs ==
  {[addrs |-> EmptyMap, al |-> <<>>],
   [addrs |-> MapPut(EmptyMap, IPString(SourceStartIP),
                     MapPut(EmptyMap, 8080, TCPAddr(dockerIP, 8080))),
    al |-> <<IPString(SourceStartIP)>>]}

Args(name, port, first, alloc) ==
  [op |-> "args", name |-> name, port |-> port, first |-> first,
   addrs |-> alloc.addrs, al |-> alloc.al, out |-> <<>>]

CallInit ==
  /\ running = {}
  /\ events = <<>>
  /\ emitted = 0
  /\ pc = "list"
  /\ todo = {}
  /\ cur = NoCur
  /\ last = NoCall
  /\ sourceAddrs = EmptyMap
  /\ dnsZone = EmptyMap
  /\ containerListeners = EmptyMap
  /\ listening = {}
  /\ aliases = <<>>
  /\ rl = Started
  /\ \/ \E name \in Names :
          call = Args(name, GoodPort, firstEphemeralPort, [addrs |-> EmptyMap, al |-> <<>>])
     \/ \E name \in NameArgs, port \in PortArgs, first \in FirstArgs, alloc \in AllocArgs :
          call = Args(name, port, first, alloc)

\* the container of the call
CallContainer == [ID |-> CidA, Name |-> call.name, Ports |-> {call.port, GoodPort}]

\* dnsNameFromContainerName(name)
CallDnsName ==
  /\ call.op = "args"
  /\ call' = [call EXCEPT !.op = "dnsName", !.out = dnsNameFromContainerName(call.name)]
  /\ UNCHANGED <<running, events, emitted, pc, todo, cur, last, sourceAddrs, dnsZone,
                 containerListeners, listening, aliases, rl>>

\* the source port chosen when firstEphemeralPort is call.first
CallSrcPort ==
  /\ call.op = "args"
  /\ call' = [call EXCEPT !.op = "srcPort",
                          !.out = srcPort(call.port.PublicPort, call.port.PrivatePort, call.first)]
  /\ UNCHANGED <<running, events, emitted, pc, todo, cur, last, sourceAddrs, dnsZone,
                 containerListeners, listening, aliases, rl>>

\* ListenerFromContainerAndPort(container, port)
CallListener ==
  /\ call.op = "args"
  /\ \E r \in ListenerFromContainerAndPort(CallContainer, call.port, call.addrs, call.al) :
       call' = [call EXCEPT !.op = "listener", !.out = r]
  /\ UNCHANGED <<running, events, emitted, pc, todo, cur, last, sourceAddrs, dnsZone,
                 containerListeners, listening, aliases, rl>>

\* addContainer's loop over the mappings call.port and GoodPort, in either order
CallAddPorts ==
  /\ call.op = "args"
  /\ \E ports \in Perms(CallContainer.Ports) :
       \E st \in addPorts(CallContainer, ports,
                          Maps(EmptyMap, EmptyMap, call.addrs, {}, call.al)) :
         call' = [call EXCEPT !.op = "addPorts", !.out = st]
  /\ UNCHANGED <<running, events, emitted, pc, todo, cur, last, sourceAddrs, dnsZone,
                 containerListeners, listening, aliases, rl>>

CallNext ==
  \/ CallDnsName
  \/ CallSrcPort
  \/ CallListener
  \/ CallAddPorts

CallSpec == CallInit /\ [][CallNext]_vars

----------------------------------------------------------------------------
(* Properties of the reconciler and the allocator *)

Registered == DOMAIN containerListeners

PrivatePorts == {p.PrivatePort : p \in UNION {PublishedPorts(cid) : cid \in ContainerIDs}}

\* the key k is the key of a port of the container cid
OwnsKey(cid, k) == \E p \in PrivatePorts : k = cid \o <<":">> \o Itoa(p)

\* the port claim (address, port) -> dest is live
Claimed(src, dest) ==
  /\ IPString(src.IP) \in DOMAIN sourceAddrs
  /\ src.Port \in DOMAIN sourceAddrs[IPString(src.IP)]
  /\ sourceAddrs[IPString(src.IP)][src.Port] = dest

\* C1: no two registered Listeners share a source (address, port), and each
\* registered Listener holds the one live claim of its source address and
\* port, made for its own destination.
C1_UniqueSource ==
  /\ \A k1, k2 \in Registered :
       k1 # k2 => containerListeners[k1].Src # containerListeners[k2].Src
  /\ \A k \in Registered : Claimed(containerListeners[k].Src, containerListeners[k].Dest)

\* two Listeners on the same port of two addresses, after a release
C1_Witness ==
  /\ last.op = "remove" /\ last.out # <<>>
  /\ \E k1, k2 \in Registered :
       /\ containerListeners[k1].Src.Port = containerListeners[k2].Src.Port
       /\ containerListeners[k1].Src.IP # containerListeners[k2].Src.IP

\* C2: when addContainer(id) has returned and the runtime still reports for id
\* what it reported to that call, a second addContainer(id) starts no
\* Listener and leaves the registry, the zone, the claims, the aliases and the
\* sockets as they are; and between handler calls the listening sockets are
\* those of the registered Listeners, one per key.
C2_AddIdempotent ==
  /\ (pc \in {"enum", "loop"} /\ last.op = "add" /\ last.up = (last.id \in running)) =>
       addContainer(last.id, running, NowMaps) = {NowMaps}
  /\ pc \in {"enum", "loop"} =>
       /\ listening = {containerListeners[k].Src : k \in Registered}
       /\ Cardinality(listening) = Cardinality(Registered)

\* an addContainer for a running container whose ports are registered
\* returned without starting anything
C2_Witness ==
  /\ last.op = "add" /\ last.out = <<>>
  /\ last.id \in running
  /\ KeysOf(last.id, containerListeners) # {}

\* C3: after removeContainer(id) returned, no key of id is registered, and of
\* every Listener it stopped the DNS name is not in the zone, the port claim
\* is released and the socket closed.
C3_RemoveCleansUp ==
  last.op = "remove" =>
    /\ \A k \in Registered : ~OwnsKey(last.id, k)
    /\ \A i \in DOMAIN last.out :
         /\ last.out[i].DNSName \notin DOMAIN dnsZone
         /\ ~Claimed(last.out[i].Src, last.out[i].Dest)
         /\ last.out[i].Src \notin listening

\* removeContainer returned after stopping two Listeners of one container
C3_Witness ==
  /\ last.op = "remove" /\ Len(last.out) = 2
  /\ pc = "loop"

\* the runtime and the registry agree: the startup listing and every event
\* emitted so far have been handled
Synced == pc = "loop" /\ events = <<>>

KeyOf(cid, p) == cid \o <<":">> \o Itoa(p.PrivatePort)

\* C8 as stated: once everything emitted is handled, the registry holds the
\* key (c, p) exactly for the running containers c and their port mappings p
\* with a non-zero public port and a name that derives a non-empty DNS name.
C8_RegistryTracksRuntime ==
  Synced =>
    Registered = {KeyOf(cid, p) : <<cid, p>> \in
                   {cp \in running \X UNION {PublishedPorts(c) : c \in ContainerIDs} :
                      /\ cp[2] \in PublishedPorts(cp[1])
                      /\ cp[2].PublicPort # 0
                      /\ dnsNameFromContainerName(ContainerName(cp[1])) # <<>>}}

\* C8, amended: ... with a non-zero public port, a non-zero private port and
\* a name that derives a non-empty DNS name.
C8_RegistryTracksRuntimeNonZero ==
  Synced =>
    Registered = {KeyOf(cid, p) : <<cid, p>> \in
                   {cp \in running \X UNION {PublishedPorts(c) : c \in ContainerIDs} :
                      /\ cp[2] \in PublishedPorts(cp[1])
                      /\ cp[2].PublicPort # 0
                      /\ cp[2].PrivatePort # 0
                      /\ dnsNameFromContainerName(ContainerName(cp[1])) # <<>>}}

\* everything emitted is handled, a removal last; the container whose
\* mappings include one without a public and one without a private port runs
\* with its one Listener, beside the container without a DNS name
C8_Witness ==
  /\ Synced /\ emitted = MaxEvents
  /\ last.op = "remove" /\ last.out # <<>>
  /\ CidAB \in running /\ CidB \in running
  /\ Registered = {KeyOf(CidAB, APIPort(80, 50001, Unspecified))}

\* C9: the aliases provisioned are the starting address and then, each time,
\* the numeric successor of the one before, none provisioned twice; every one
\* of them is still an address of sourceAddrs, whatever was released.
C9_ContiguousGrowth ==
  /\ aliases # <<>> => ParseIP(aliases[1]) = <<127, 2, 2, 1>>
  /\ \A i \in 1..(Len(aliases) - 1) :
       ipToInt(ParseIP(aliases[i + 1])) = ipToInt(ParseIP(aliases[i])) + 1
  /\ DOMAIN sourceAddrs = {aliases[i] : i \in DOMAIN aliases}
  /\ Cardinality(DOMAIN sourceAddrs) = Len(aliases)
  /\ pc # "panic"

\* three addresses were provisioned, and a removal released claims since
C9_Witness ==
  /\ Len(aliases) = 3
  /\ last.op = "remove" /\ last.out # <<>>
  /\ \E a \in DOMAIN sourceAddrs : DOMAIN sourceAddrs[a] = {}

AllocPorts == {80, 8080}

HasFree(port) == \E a \in DOMAIN sourceAddrs : port \notin DOMAIN sourceAddrs[a]

\* C10: between handler calls, whatever was claimed and released before, an
\* allocation of a port
\* provisions a new address exactly when every provisioned address has the
\* port claimed; otherwise it claims the port on a provisioned address that
\* did not have it and leaves the set of addresses as it is.
C10_FirstFit ==
  pc \in {"enum", "loop"} =>
  \A port \in AllocPorts :
    \A r \in sourceAddrForPort(port, TCPAddr(dockerIP, port), sourceAddrs, aliases) :
      IF HasFree(port)
      THEN /\ r.al = aliases
           /\ DOMAIN r.addrs = DOMAIN sourceAddrs
           /\ IPString(r.src.IP) \in DOMAIN sourceAddrs
           /\ port \notin DOMAIN sourceAddrs[IPString(r.src.IP)]
           /\ port \in DOMAIN r.addrs[IPString(r.src.IP)]
      ELSE /\ Len(r.al) = Len(aliases) + 1
           /\ IPString(r.src.IP) \notin DOMAIN sourceAddrs
           /\ DOMAIN r.addrs = DOMAIN sourceAddrs \cup {IPString(r.src.IP)}

\* a removal released a claim of port 80 while another address keeps its own:
\* the next allocation of port 80 has an address to reuse
C10_Witness ==
  /\ last.op = "remove"
  /\ \E i \in DOMAIN last.out : last.out[i].Src.Port = 80
  /\ HasFree(80)
  /\ \E a \in DOMAIN sourceAddrs : 80 \in DOMAIN sourceAddrs[a]

\* C17: between handler calls, the zone holds the DNS name of every registered
\* Listener and maps it to that Listener's source IP.
C17_ZoneMapsEveryRelay ==
  pc \in {"enum", "loop"} =>
    \A k \in Registered :
      /\ containerListeners[k].DNSName \in DOMAIN dnsZone
      /\ dnsZone[containerListeners[k].DNSName] = containerListeners[k].Src.IP

\* the Listener l of a key that is not cid's is, after the step, registered
\* under its key, listening, holding its claim and named in the zone as before
Untouched(k) ==
  LET l == containerListeners[k] IN
  /\ k \in DOMAIN containerListeners' /\ containerListeners'[k] = l
  /\ l.Src \in listening'
  /\ IPString(l.Src.IP) \in DOMAIN sourceAddrs'
  /\ l.Src.Port \in DOMAIN sourceAddrs'[IPString(l.Src.IP)]
  /\ sourceAddrs'[IPString(l.Src.IP)][l.Src.Port] = l.Dest
  /\ l.DNSName \in DOMAIN dnsZone =>
       (l.DNSName \in DOMAIN dnsZone' /\ dnsZone'[l.DNSName] = dnsZone[l.DNSName])

\* C18: a step of removeContainer(id) that removes an entry leaves every
\* Listener of another container registered, listening, with its claim and
\* its zone mapping, and leaves the provisioned addresses as they are; and
\* removeContainer for an id without entries changes none of the maps.
C18_RemoveFrame ==
  [][/\ pc' = "stop" /\ containerListeners' # containerListeners =>
          /\ \A k \in Registered : ~OwnsKey(cur'.cid, k) => Untouched(k)
          /\ DOMAIN sourceAddrs' = DOMAIN sourceAddrs
          /\ aliases' = aliases
     /\ (pc = "loop" /\ pc' = "loop" /\ last'.op = "remove" /\ events' # events) =>
          UNCHANGED <<containerListeners, dnsZone, sourceAddrs, listening, aliases>>]_vars

\* the Listeners removeContainer has handed to Stop() so far
Stopping == {cur.l} \cup {cur.stopped[i] : i \in DOMAIN cur.stopped}

\* C19: while a Listener is in Stop(), and for those removeContainer stopped
\* before it in the same call, the registry entry, the zone mapping and the
\* port claim are already gone.
C19_BookkeepingBeforeStop ==
  pc = "stop" =>
    \A l \in Stopping :
      /\ \A k \in Registered : containerListeners[k] # l
      /\ l.DNSName \notin DOMAIN dnsZone
      /\ ~Claimed(l.Src, l.Dest)

\* the second Listener of a container is in Stop(), the first one stopped,
\* while another container's Listener stays registered
C19_Witness ==
  /\ pc = "stop"
  /\ Len(cur.stopped) = 1
  /\ Registered # {}

----------------------------------------------------------------------------
(* Properties of one Listener *)

\* C4: under fair scheduling, a Stop() that has closed the socket and waits to
\* send its close-all returns.
C4_StopReturns == (rl.stop = "send") ~> (rl.stop = "returned")

\* the goroutines of the connection c have exited
Exited(c) ==
  /\ rl.fwd[c] \in {"none", "failed", "done"}
  /\ rl.up[c] \in {"none", "exited"}
  /\ rl.down[c] \in {"none", "exited"}

\* C5: when Stop() has returned, the tracker has finished and the forward and
\* copy goroutines of every connection have exited.
C5_StopWaitsForGoroutines ==
  rl.stop = "returned" => (rl.trk = "done" /\ \A c \in Conns : Exited(c))

\* C6: after Stop() has returned (and so after a Wait() that follows it has
\* returned), the listening socket is closed and no accepted or dialled
\* connection is open.
C6_NothingOpenAfterStop ==
  rl.stop = "returned" =>
    /\ rl.lsock = "closed"
    /\ \A c \in Conns : rl.local[c] # "open" /\ rl.remote[c] # "open"

\* C7: when the tracker handles close-all, every connection Accept() returned
\* is registered with it: none is still on its way through newConn.
C7_CloseAllCoversAccepted ==
  rl.trk \in {"closing", "done"} =>
    \A c \in Conns : rl.local[c] # "none" => ~(rl.acc = "register" /\ rl.accConn = c)

\* C14: while the Listener runs, a connection whose dial failed is closed and
\* is not in the tracker's set.
C14_DialFailureDrops ==
  \A c \in Conns :
    (rl.fwd[c] = "failed" /\ rl.stop = "idle") =>
      (rl.local[c] = "closed" /\ c \notin rl.openConnections)

\* the pair of c is closed, its copies have returned and the tracker has
\* forgotten it
Finished(c) ==
  /\ rl.local[c] = "closed" /\ rl.remote[c] = "closed"
  /\ rl.up[c] = "exited" /\ rl.down[c] = "exited"
  /\ rl.fwd[c] = "done"
  /\ c \notin rl.openConnections

\* C15: under fair scheduling, when one copy of a connection has ended then,
\* unless Stop() is called, both connections get closed, the other copy ends,
\* and the forward's report makes the tracker drop the connection from its
\* set; and the set changes only in a step of the tracker's select, by the
\* connection just accepted or the one reported.
C15_CopyEndClosesPair ==
  /\ \A c \in Conns :
       (rl.up[c] = "ended" \/ rl.down[c] = "ended") ~> (rl.stop # "idle" \/ Finished(c))
  /\ [][rl'.openConnections # rl.openConnections =>
          /\ rl.trk = "select"
          /\ \/ rl.acc = "register" /\ rl'.openConnections = rl.openConnections \cup {rl.accConn}
             \/ \E c \in Conns : /\ rl.fwd[c] = "report"
                                 /\ rl'.openConnections = rl.openConnections \ {c}]_vars

\* a connection ended and was reported while the Listener runs
C15_Witness ==
  /\ rl.stop = "idle"
  /\ \E c \in Conns : Finished(c)

\* C16: under fair scheduling, once Stop() is called the accept loop, the
\* tracker and every forward (its report included) exit.
C16_AllExitAfterStop ==
  (rl.stop # "idle") ~>
    (/\ rl.acc = "done"
     /\ rl.trk = "done"
     /\ \A c \in Conns : rl.fwd[c] \in {"none", "failed", "done"})

----------------------------------------------------------------------------
(* Properties of the functions *)

\* C11: the source port is the private port when the public port is at least
\* firstEphemeralPort, whatever its value, and the public port otherwise; a
\* Listener's source port follows this for the configured value, and its
\* destination port is the public port.
C11_PortPolicy ==
  /\ call.op = "srcPort" =>
       call.out = IF call.port.PublicPort >= call.first THEN call.port.PrivatePort
                  ELSE call.port.PublicPort
  /\ (call.op = "listener" /\ ~call.out.err) =>
       /\ call.out.l.Dest.Port = call.port.PublicPort
       /\ call.out.l.Src.Port = IF call.port.PublicPort >= firstEphemeralPort
                                THEN call.port.PrivatePort
                                ELSE call.port.PublicPort

\* a public port equal to a threshold other than the default: the private
\* port was chosen
C11_Witness ==
  /\ call.op = "srcPort"
  /\ call.first = 1024 /\ call.port.PublicPort = 1024 /\ call.port.PrivatePort = 8080
  /\ call.out = 8080

\* the construction of a Listener for the mapping fails
Fails(name, port) ==
  \/ name = <<>>
  \/ port.PublicPort = 0
  \/ port.PrivatePort = 0
  \/ dnsNameFromContainerName(name) = <<>>

\* C12: a derived DNS name has only characters of [a-z0-9.-], no two hyphens
\* in a row and no hyphen at either end; and for a mapping with both ports
\* non-zero, no Listener is built exactly when the derived name is empty.
C12_HostnameShape ==
  /\ call.op = "dnsName" =>
       /\ \A i \in 1..Len(call.out) : AllowedChar(call.out[i])
       /\ \A i \in 1..(Len(call.out) - 1) : ~(call.out[i] = "-" /\ call.out[i + 1] = "-")
       /\ call.out # <<>> => (call.out[1] # "-" /\ call.out[Len(call.out)] # "-")
  /\ (call.op = "listener" /\ call.port.PublicPort # 0 /\ call.port.PrivatePort # 0) =>
       (call.out.err <=> dnsNameFromContainerName(call.name) = <<>>)

\* a name whose replaced characters leave two hyphens in a row inside it
C12_Witness ==
  /\ call.op = "dnsName"
  /\ call.name = <<"a", "-", "/", "a">>
  /\ call.out = <<"a", "-", "a">>

\* C13: when the construction fails for a mapping, it returns the error and
\* no Listener and leaves the claims and the aliases as they were; and
\* addContainer's loop over that mapping and a good one, in either order,
\* does not panic, writes nothing for the failed mapping and registers the
\* good one (nothing at all when the name is what fails).
C13_FailureSkipsMapping ==
  /\ (call.op = "listener" /\ Fails(call.name, call.port)) =>
       /\ call.out.err /\ ~call.out.panic
       /\ call.out.l = NoListener
       /\ call.out.addrs = call.addrs
       /\ call.out.al = call.al
  /\ (call.op = "addPorts" /\ Fails(call.name, call.port)) =>
       /\ ~call.out.panic
       /\ IF Fails(call.name, GoodPort)
          THEN /\ call.out.cl = EmptyMap /\ call.out.dz = EmptyMap /\ call.out.ls = {}
               /\ call.out.sa = call.addrs /\ call.out.al = call.al
               /\ call.out.out = <<>>
          ELSE /\ DOMAIN call.out.cl = {containerPortKey(CallContainer, GoodPort)}
               /\ Len(call.out.out) = 1
               /\ DOMAIN call.out.dz = {call.out.out[1].DNSName}
               /\ call.out.ls = {call.out.out[1].Src}
               /\ call.out.out[1].Src.Port = 80
               /\ \A a \in DOMAIN call.out.sa :
                    DOMAIN call.out.sa[a] =
                      (IF a \in DOMAIN call.addrs THEN DOMAIN call.addrs[a] ELSE {})
                      \cup (IF a = IPString(call.out.out[1].Src.IP) THEN {80} ELSE {})
               /\ Len(call.out.al) = Cardinality(DOMAIN call.out.sa)

\* a mapping without a public port was skipped and the good one registered
C13_Witness ==
  /\ call.op = "addPorts"
  /\ call.port.PublicPort = 0 /\ call.port.PrivatePort = 8080
  /\ call.addrs # EmptyMap
  /\ DOMAIN call.out.cl = {containerPortKey(CallContainer, GoodPort)}

RECURSIVE StripDisallowed(_)
\* s without its characters outside [-a-z0-9.]
StripDisallowed(s) ==
  IF s = <<>> THEN <<>>
  ELSE IF AllowedChar(Head(s)) THEN <<Head(s)>> \o StripDisallowed(Tail(s))
  ELSE StripDisallowed(Tail(s))

\* C20: the derived DNS name is the name with every character outside
\* [a-z0-9.-] removed and nothing put in its place, then runs of hyphens
\* collapsed, then hyphens trimmed at both ends.
C20_StripsDisallowed ==
  call.op = "dnsName" =>
    call.out = TrimHyphens(CollapseHyphens(StripDisallowed(call.name)))

====
